---- MODULE Spec2Model ----
(***************************************************************************)
(* Model of findthatcharity/commands/indexdata.py: the importdata command  *)
(* that loads the organisation rows, builds the identifier -> records      *)
(* index (orgs), resolves clusters, picks the canonical orgID, publishes   *)
(* the merged documents to the search index in batches and sweeps the      *)
(* documents of older generations.                                         *)
(*                                                                         *)
(* An identifier "GB-CHC-1" is the tuple of its "-"-separated parts,       *)
(* <<"GB", "CHC", "1">>; None (and the empty string) is the empty tuple.   *)
(* A row is a record; a row whose orgIDs column is NULL has no orgIDs      *)
(* field.  dateRegistered is a day number (0 = None); Today is the day the *)
(* command runs.  A score p + 1/age is kept as the fraction it is.  Of a   *)
(* merged document the model keeps _id, orgID, name, orgIDs and            *)
(* last_updated; the other fields are unions that nothing below reads.     *)
(* Sets are iterated in any order, rows are returned in any order.         *)
(***************************************************************************)
EXTENDS Integers, Sequences, FiniteSets, TLC

\* ---------------------------------------------------------------- bounds
MaxRecs == 3        \* rows of the organisation table
MaxAge == 2         \* oldest registration date, in days before Today
MaxLimit == 2       \* largest --es-bulk-limit
MaxRuns == 2        \* invocations of importdata, one after the other
MaxErrors == 1      \* documents the index rejects
MaxStale == 1       \* documents in the index before the first modelled run

Today == MaxAge + 1
None == <<>>

CHC1 == <<"GB", "CHC", "1">>
CHC2 == <<"GB", "CHC", "2">>
SC1 == <<"GB", "SC", "1">>
COH1 == <<"GB", "COH", "1">>
Ids == {CHC1, CHC2, SC1, COH1}

VARIABLES
    pc,             \* position of the command: idle, load, resolve, flush, publish, sweep, done, crashed
    source,         \* the organisation table joined with its links: id -> row
    es_bulk_limit,  \* the --es-bulk-limit option
    index,          \* the search index: _id -> last_updated of the document (0 = no document)
    run,            \* number of the current invocation; datetime.now() of run n is n
    results,        \* ids of the rows not yet fetched from the cursor
    orgs_keys,      \* orgs: its keys in insertion order
    orgs,           \* orgs: identifier -> list of (ids of) the rows that mention it
    orgs_checked,   \* identifiers of the clusters already emitted
    pos,            \* position of the resolver loop in orgs_keys
    merged_orgs,    \* documents built and not yet sent
    total_results,  \* [success, errors]
    last_updated,   \* the stamp of the run
    raised,         \* the unhandled exception that ended the run, "" if none
    clusters,       \* history: clusters emitted in this run, [ids, records, doc]
    es_calls,       \* history: calls on es_client in this run, [op, docs]
    rejections,     \* history: documents the index has rejected, over all runs
    before          \* history: _ids in the index when the run was started

vars == <<pc, source, es_bulk_limit, index, run, results, orgs_keys, orgs, orgs_checked,
          pos, merged_orgs, total_results, last_updated, raised, clusters, es_calls,
          rejections, before>>

\* ------------------------------------------------------------ helpers
Range(s) == {s[n] : n \in 1..Len(s)}

RECURSIVE Orders(_)
\* the orders in which a set may be iterated
Orders(S) ==
    IF S = {} THEN {<<>>}
    ELSE UNION {{<<x>> \o o : o \in Orders(S \ {x})} : x \in S}

RECURSIVE Flatten(_)
Flatten(ss) == IF ss = <<>> THEN <<>> ELSE Head(ss) \o Flatten(Tail(ss))

RECURSIVE Unique(_)
\* list(OrderedDict.fromkeys(s)): first occurrences, in order
Unique(s) ==
    IF s = <<>> THEN <<>>
    ELSE LET r == Unique(SubSeq(s, 1, Len(s) - 1))
             x == s[Len(s)]
         IN IF x \in Range(r) THEN r ELSE Append(r, x)

\* "-".join(i.split("-")[0:2])
scheme(i) == SubSeq(i, 1, IF Len(i) < 2 THEN Len(i) ELSE 2)

\* priorities.get(scheme, 0)
priorities(s) ==
    CASE s = <<"GB", "CHC">> -> 5
      [] s = <<"GB", "SC">> -> 4
      [] s = <<"GB", "NIC">> -> 3
      [] s = <<"GB", "COH">> -> 2
      [] s = <<"GB", "EDU">> -> 1
      [] OTHER -> 0

\* a row with every column the command reads
WellFormed(r) == {"id", "linked_orgs", "orgIDs", "active", "dateRegistered", "name"} \subseteq DOMAIN r

\* get_ids_from_record of one row (the row has its list columns)
RowIds(r) == (({r.id} \cup Range(r.linked_orgs)) \cup Range(r.orgIDs)) \ {None}

\* get_ids_from_record of a list of rows, given by their ids
get_ids_from_record(rs) == UNION {RowIds(source[rs[n]]) : n \in 1..Len(rs)}

\* ------------------------------------------------------------ input
\* array_agg over the outer join: [None] for a row without links
LinksOf(i) == {<<None>>} \cup {<<j>> : j \in Ids \ {i}}

\* a row without registration date, inactive
PlainRow(i, l) ==
    [id |-> i, linked_orgs |-> l, orgIDs |-> <<i>>, active |-> FALSE, dateRegistered |-> 0,
     name |-> i]

\* the rows the table may hold for organisation i; the last ones have NULL in orgIDs
RowsOf(i) ==
    {[id |-> i, linked_orgs |-> l, orgIDs |-> <<i>>, active |-> a, dateRegistered |-> d, name |-> i] :
        l \in LinksOf(i), a \in BOOLEAN, d \in {0} \cup ((Today - MaxAge)..Today)}
    \cup {[id |-> i, linked_orgs |-> l, active |-> FALSE, dateRegistered |-> 0, name |-> i] :
        l \in LinksOf(i)}

KeySets(n) == {R \in SUBSET Ids : R # {} /\ Cardinality(R) <= n}

\* a linked_orgs for each row under the keys R, none of a row to itself
LinksFor(R) ==
    {l \in [R -> {<<None>>} \cup {<<j>> : j \in Ids}] : \A i \in R : l[i] \in LinksOf(i)}

\* one row per organisation (group by o.id): the row under key i has id i.
\* tables of up to MaxRecs rows without dates, linked in any way
LinkedTables ==
    UNION {{[i \in R |-> PlainRow(i, l[i])] : l \in LinksFor(R)} : R \in KeySets(MaxRecs)}

\* tables of up to MaxRecs - 1 rows, one of them of any kind
AnyTables ==
    UNION {UNION {{[i \in R |-> IF i = s THEN x ELSE PlainRow(i, l[i])] :
                        x \in RowsOf(s), l \in LinksFor(R)} : s \in R} :
           R \in KeySets(MaxRecs - 1)}

\* tables of up to MaxRecs rows without links
UnlinkedTables ==
    {[i \in R |-> PlainRow(i, <<None>>)] : R \in KeySets(MaxRecs)}

\* an index holding up to MaxStale documents, written by the runs up to n
IndexesOf(n) ==
    {x \in [Ids -> 0..n] : Cardinality({i \in Ids : x[i] # 0}) <= MaxStale}

Start(tables, n, indexes) ==
    /\ pc = "idle"
    /\ source \in tables
    /\ es_bulk_limit \in 1..MaxLimit
    /\ index \in indexes
    /\ run = n
    /\ results = {}
    /\ orgs_keys = <<>>
    /\ orgs = [i \in Ids |-> <<>>]
    /\ orgs_checked = {}
    /\ pos = 1
    /\ merged_orgs = <<>>
    /\ total_results = [success |-> 0, errors |-> <<>>]
    /\ last_updated = 0
    /\ raised = ""
    /\ clusters = <<>>
    /\ es_calls = <<>>
    /\ rejections = 0
    /\ before = {}

\* MaxRuns runs over a linked table, from an empty index
Init == Start(LinkedTables, 0, {[i \in Ids |-> 0]})

\* the last run, over a table with a dated, active or incomplete row
InitSelector == Start(AnyTables, MaxRuns - 1, {[i \in Ids |-> 0]})

\* the last run, over unlinked rows, on an index the runs before it left
InitPublisher == Start(UnlinkedTables, MaxRuns - 1, IndexesOf(MaxRuns - 1))

\* ------------------------------------------------------------ resolver
\* lines 86-90: the identifiers of the rows under k, and of the rows under those
ids_to_check(k) ==
    LET seed == get_ids_from_record(orgs[k])
    IN seed \cup UNION {get_ids_from_record(orgs[i]) : i \in seed}

\* lines 91-92: the rows under every identifier of the frontier, iterated in order ord
records(ord) == Flatten([n \in 1..Len(ord) |-> orgs[ord[n]]])

\* lines 95-98
already_found(ids) == \E i \in ids : i \in orgs_checked

\* ------------------------------------------------------------ selector
\* a score p + 1/age is the fraction <<p * age + 1, age>>, a score p is <<p, 1>>
recency_bonus(p, age) == <<p * age + 1, age>>

Greater(a, b) == a[1] * b[2] > b[1] * a[2]

\* line 109
Age(r) == Today - r.dateRegistered

\* lines 108, 110: the row's own id gets the bonus
Bonus(r) == r.dateRegistered # 0 /\ r.active

\* lines 106-122: the occurrences one row adds to ids
Occurrences(r) ==
    LET own == [id |-> r.id,
                priority |-> IF Bonus(r) THEN recency_bonus(priorities(scheme(r.id)), Age(r))
                             ELSE <<priorities(scheme(r.id)), 1>>,
                name |-> r.name]
        other(j) == [id |-> j, priority |-> <<priorities(scheme(j)), 1>>, name |-> r.name]
        rest(l) == SelectSeq([n \in 1..Len(l) |-> other(l[n])], LAMBDA o : o.id # None)
    IN <<own>> \o rest(r.linked_orgs) \o rest(r.orgIDs)

RECURSIVE sorted(_)
\* line 124: sorted(ids, key=lambda x: -x[2]), a stable sort
sorted(s) ==
    IF s = <<>> THEN <<>>
    ELSE LET r == sorted(SubSeq(s, 1, Len(s) - 1))
             x == s[Len(s)]
             \* x goes after every element that does not score less than it
             n == Cardinality({m \in 1..Len(r) : ~Greater(x.priority, r[m].priority)})
         IN SubSeq(r, 1, n) \o <<x>> \o SubSeq(r, n + 1, Len(r))

\* lines 104-148: the document of a cluster, from its rows in order
MergedOrg(recs) ==
    LET ids == sorted(Flatten([n \in 1..Len(recs) |-> Occurrences(source[recs[n]])]))
        orgids == Unique([n \in 1..Len(ids) |-> ids[n].id])
        names == Unique([n \in 1..Len(ids) |-> ids[n].name])
    IN [_id |-> orgids[1], orgID |-> orgids[1], name |-> names[1], orgIDs |-> orgids,
        last_updated |-> last_updated]

\* ------------------------------------------------------------ actions
\* an unhandled exception ends the command
Raise(e) ==
    /\ pc' = "crashed"
    /\ raised' = e

\* lines 44-66: the command is started, the query is executed
Invoke ==
    /\ pc \in {"idle", "done"}
    /\ run < MaxRuns
    /\ pc' = "load"
    /\ run' = run + 1
    /\ results' = DOMAIN source
    /\ orgs_keys' = <<>>
    /\ orgs' = [i \in Ids |-> <<>>]
    /\ orgs_checked' = {}
    /\ pos' = 1
    /\ merged_orgs' = <<>>
    /\ total_results' = [success |-> 0, errors |-> <<>>]
    /\ last_updated' = 0
    /\ clusters' = <<>>
    /\ es_calls' = <<>>
    /\ before' = {i \in Ids : index[i] # 0}
    /\ UNCHANGED <<source, es_bulk_limit, index, raised, rejections>>

\* lines 68-72 for one row, and lines 74-81 after the last one
LoadRow ==
    /\ pc = "load"
    /\ \E r \in results :
        IF ~({"linked_orgs", "orgIDs"} \subseteq DOMAIN source[r])
        THEN /\ Raise("TypeError")
             /\ UNCHANGED <<source, es_bulk_limit, index, run, results, orgs_keys, orgs,
                            orgs_checked, pos, merged_orgs, total_results, last_updated,
                            clusters, es_calls, rejections, before>>
        ELSE \E ord \in Orders(RowIds(source[r])) :
            /\ orgs' = [i \in Ids |-> IF i \in Range(ord) THEN Append(orgs[i], r) ELSE orgs[i]]
            /\ orgs_keys' = orgs_keys \o SelectSeq(ord, LAMBDA i : i \notin Range(orgs_keys))
            /\ results' = results \ {r}
            /\ pc' = IF results' = {} THEN "resolve" ELSE "load"
            /\ last_updated' = IF results' = {} THEN run ELSE last_updated
            /\ UNCHANGED <<source, es_bulk_limit, index, run, orgs_checked, pos, merged_orgs,
                           total_results, raised, clusters, es_calls, rejections, before>>

\* a batch is sent only once it is over the limit
BatchOver(pending) == pending > es_bulk_limit

\* line 150
BatchFull(pending) == pending >= es_bulk_limit

\* where the loop of line 84 goes after the key at pos
AfterKey(pending) ==
    IF BatchFull(pending) THEN "flush"
    ELSE IF pos + 1 > Len(orgs_keys) THEN "publish" ELSE "resolve"

\* lines 84-149: one iteration of the resolver loop
Resolve ==
    /\ pc = "resolve"
    /\ pos <= Len(orgs_keys)
    /\ LET ids == ids_to_check(orgs_keys[pos])
       IN IF already_found(ids)
          THEN /\ pos' = pos + 1
               /\ pc' = AfterKey(Len(merged_orgs))
               /\ UNCHANGED <<source, es_bulk_limit, index, run, results, orgs_keys, orgs,
                              orgs_checked, merged_orgs, total_results, last_updated, raised,
                              clusters, es_calls, rejections, before>>
          ELSE \E recs \in {records(ord) : ord \in Orders(ids)} :
               IF \E n \in 1..Len(recs) : Bonus(source[recs[n]]) /\ Age(source[recs[n]]) = 0
               THEN /\ Raise("ZeroDivisionError")
                    /\ orgs_checked' = orgs_checked \cup ids
                    /\ UNCHANGED <<source, es_bulk_limit, index, run, results, orgs_keys,
                                   orgs, pos, merged_orgs, total_results, last_updated,
                                   clusters, es_calls, rejections, before>>
               ELSE /\ orgs_checked' = orgs_checked \cup ids
                    /\ clusters' = Append(clusters, [ids |-> ids, records |-> Range(recs),
                                                     doc |-> MergedOrg(recs)])
                    /\ merged_orgs' = Append(merged_orgs, clusters'[Len(clusters')].doc)
                    /\ pos' = pos + 1
                    /\ pc' = AfterKey(Len(merged_orgs) + 1)
                    /\ UNCHANGED <<source, es_bulk_limit, index, run, results, orgs_keys,
                                   orgs, total_results, last_updated, raised, es_calls,
                                   rejections, before>>

\* bulk(es_client, merged_orgs, raise_on_error=False, ...): the index rejects the
\* documents at the positions in rejected and stores the others under their _id
bulk(rejected, next) ==
    LET stored == {merged_orgs[n]._id : n \in (1..Len(merged_orgs)) \ rejected}
        failed == SelectSeq([n \in 1..Len(merged_orgs) |-> <<n, merged_orgs[n]>>],
                            LAMBDA t : t[1] \in rejected)
    IN /\ index' = [i \in Ids |-> IF i \in stored THEN last_updated ELSE index[i]]
       /\ total_results' =
            [success |-> total_results.success + Len(merged_orgs) - Cardinality(rejected),
             errors |-> total_results.errors \o [n \in 1..Len(failed) |-> failed[n][2]]]
       /\ merged_orgs' = <<>>
       /\ es_calls' = Append(es_calls, [op |-> "bulk", docs |-> merged_orgs])
       /\ rejections' = rejections + Cardinality(rejected)
       /\ pc' = next
       /\ UNCHANGED <<source, es_bulk_limit, run, results, orgs_keys, orgs, orgs_checked, pos,
                      last_updated, raised, clusters, before>>

\* the documents of the batch the index may reject
Rejections ==
    {rej \in SUBSET (1..Len(merged_orgs)) : rejections + Cardinality(rej) <= MaxErrors}

\* the sweep follows the first full batch
AfterFlushSweep == "sweep"

\* where the command goes after the bulk call of line 151
AfterFlush == IF pos > Len(orgs_keys) THEN "publish" ELSE "resolve"

\* lines 150-154: a full batch is sent from inside the loop
BulkInLoop ==
    /\ pc = "flush"
    /\ \E rejected \in Rejections : bulk(rejected, AfterFlush)

\* lines 156-167: the remainder is sent
BulkFinal ==
    /\ pc = "publish"
    /\ \E rejected \in Rejections : bulk(rejected, "sweep")

\* the query matches the documents of this run instead of the others
StaleMatch(i) == index[i] = last_updated

\* lines 169-179: must_not match last_updated
Stale(i) == index[i] # last_updated

\* lines 169-181: delete_by_query of every document with another last_updated
Sweep ==
    /\ pc = "sweep"
    /\ index' = [i \in Ids |-> IF Stale(i) THEN 0 ELSE index[i]]
    /\ es_calls' = Append(es_calls, [op |-> "delete_by_query", docs |-> <<>>])
    /\ pc' = "done"
    /\ UNCHANGED <<source, es_bulk_limit, run, results, orgs_keys, orgs, orgs_checked, pos,
                   merged_orgs, total_results, last_updated, raised, clusters, rejections,
                   before>>

Next == Invoke \/ LoadRow \/ Resolve \/ BulkInLoop \/ BulkFinal \/ Sweep

Spec == Init /\ [][Next]_vars

SpecSelector == InitSelector /\ [][Next]_vars

SpecPublisher == InitPublisher /\ [][Next]_vars

\* ------------------------------------------------------------ properties
\* the resolver loop has iterated over every key of orgs
LoopOver == pos > Len(orgs_keys) /\ pc \in {"flush", "publish", "sweep", "done"}

Built == [n \in 1..Len(clusters) |-> clusters[n].doc]

Bulks == SelectSeq(es_calls, LAMBDA c : c.op = "bulk")

Sent == Flatten([n \in 1..Len(Bulks) |-> Bulks[n].docs])

SweepCalls == {n \in 1..Len(es_calls) : es_calls[n].op = "delete_by_query"}

InIndex == {i \in Ids : index[i] # 0}

\* C1: once the resolver loop has iterated over every key of orgs, every key of orgs
\* is in the identifier set of exactly one emitted cluster.
PartitionProperty ==
    LoopOver =>
        \A i \in Range(orgs_keys) :
            Cardinality({n \in 1..Len(clusters) : i \in clusters[n].ids}) = 1

\* C2: every identifier a row of an emitted cluster mentions (id, linked_orgs, orgIDs)
\* is in the cluster's identifier set.
ClosureCompleteness ==
    \A n \in 1..Len(clusters) :
        \A r \in clusters[n].records : RowIds(source[r]) \subseteq clusters[n].ids

\* C3: once a run has completed, every document in the index carries the stamp of
\* that run.
SweepSafety == pc = "done" => \A i \in InIndex : index[i] = last_updated

\* a completed run has deleted a document of the run before it and kept its own
SweepSafetyWitness ==
    /\ pc = "done"
    /\ \E i \in before : index[i] = 0
    /\ \E i \in Ids : index[i] = last_updated

\* C4: delete_by_query is called at most once in a run, exactly once in a completed
\* run, and when it is called the loop is over, no document is pending, every
\* document built has been passed to bulk, and no call on the index follows it.
SweepBarrier ==
    /\ Cardinality(SweepCalls) <= 1
    /\ pc = "done" => SweepCalls # {}
    /\ \A n \in SweepCalls :
        /\ n = Len(es_calls)
        /\ pos > Len(orgs_keys)
        /\ merged_orgs = <<>>
        /\ Sent = Built

\* the sweep has followed two batches that held documents
SweepBarrierWitness ==
    /\ pc = "done"
    /\ Len(es_calls) >= 3
    /\ es_calls[1].docs # <<>>
    /\ es_calls[2].docs # <<>>
    /\ es_calls[Len(es_calls)].op = "delete_by_query"

\* C5: no document the sweep of a completed run has deleted has the canonical orgID
\* of a cluster emitted in that run.
OnlyObsoleteSwept ==
    pc = "done" =>
        \A i \in before :
            index[i] = 0 => \A n \in 1..Len(clusters) : clusters[n].doc.orgID # i

\* C6: the canonical orgID of a cluster is of a scheme of the highest priority among
\* the identifiers of the cluster.
PriorityOrdering ==
    \A n \in 1..Len(clusters) :
        \A j \in Range(clusters[n].doc.orgIDs) :
            priorities(scheme(j)) <= priorities(scheme(clusters[n].doc.orgID))

\* C7: after a second run over the same table the index holds documents under the
\* same orgIDs as after the first, also when the index has rejected no document.
IdempotentRepublish == (run > 1 /\ pc = "done" /\ rejections = 0) => InIndex = before

\* C8: a run over a table with a row that lacks a column does not end in an
\* unhandled exception.
MalformedSkipped ==
    (\E i \in DOMAIN source : ~WellFormed(source[i])) => pc # "crashed"

\* C9: no bulk call gets more than es_bulk_limit documents; the documents passed to
\* bulk so far and the pending ones are the documents built, each once and in order;
\* when the last bulk call has returned nothing is pending and success plus the
\* number of errors is the number of documents built.
ExactlyOnce ==
    /\ \A n \in 1..Len(Bulks) : Len(Bulks[n].docs) <= es_bulk_limit
    /\ Sent \o merged_orgs = Built
    /\ pc \in {"sweep", "done"} =>
        /\ merged_orgs = <<>>
        /\ total_results.success + Len(total_results.errors) = Len(clusters)

\* a completed run has sent a full batch of several documents and a smaller last
\* one, and the index has rejected a document
ExactlyOnceWitness ==
    /\ pc = "done"
    /\ es_bulk_limit > 1
    /\ Len(Bulks) = 2
    /\ Len(Bulks[1].docs) = es_bulk_limit
    /\ Len(Bulks[2].docs) \in 1..(es_bulk_limit - 1)
    /\ Len(total_results.errors) = 1

\* C10: no identifier is in the orgIDs of two documents of a run, no row is in two
\* clusters, and the orgIDs of a document are the identifiers marked visited for it.
NoIdentifierTwice ==
    /\ \A n, m \in 1..Len(clusters) :
        n # m =>
            /\ Range(clusters[n].doc.orgIDs) \cap Range(clusters[m].doc.orgIDs) = {}
            /\ clusters[n].records \cap clusters[m].records = {}
    /\ \A n \in 1..Len(clusters) : Range(clusters[n].doc.orgIDs) = clusters[n].ids
====
